---- MODULE Spec2Model ----
(***************************************************************************)
(* Model of sphinxcontrib/autodoc_pydantic/directives.py: the five         *)
(* pydantic directives, their signature prefix and the augmentation of the *)
(* signature node (field alias, validator field references).               *)
(*                                                                         *)
(* Python values: a str is a TLA+ string; an optional value (None or v) is *)
(* the tuple <<>> or <<v>>; a node is a record [tag, text, classes]; a     *)
(* node list is a sequence of nodes.                                       *)
(***************************************************************************)
EXTENDS Integers, Sequences, FiniteSets, TLC

VARIABLES
    config,     \* document-wide option values: option name -> <<>> or <<v>>
    classes,    \* the loaded classes: class name -> [fields, validators]
    kind,       \* config_name of the directive instance invoked last
    options,    \* self.options of that instance: the options set on it
    signode,    \* the signature node: [fullname, children]
    base,       \* the children as the host's generic handle_signature built them
    calls,      \* invocations made on the node (handle_signature, then direct calls)
    outcome,    \* "none", "returned" or "raised": how the last invocation ended
    error,      \* the exception of a raised invocation, "" otherwise
    result,     \* the (fullname, prefix) pair returned, <<>> when none
    sig_prefix, \* what get_signature_prefix returned to the host's handler
    lookups     \* Member Wrapper constructions made by the last invocation

vars == <<config, classes, kind, options, signode, base, calls, outcome,
          error, result, sig_prefix, lookups>>

(***************************************************************************)
(* Bounds and input sets                                                   *)
(***************************************************************************)
NumFields == 3
MaxCalls == 2

AllFieldNames == <<"a", "b", "c", "d", "e">>
FieldNames == {AllFieldNames[i] : i \in 1..NumFields}
AliasOnly == "id"
PrefixTexts == {"", "pydantic"}
Kinds == {"model", "settings", "field", "validator", "config"}
ClasslikeKinds == {"model", "settings", "config"}
ClassSigs == {"M", "pkg.M"}
FieldSigs == {"M.a", "M.b", "M.zz", "X.a"}
ValidatorSigs == {"M.check", "M.other", "X.check"}

(***************************************************************************)
(* str helpers                                                             *)
(***************************************************************************)
RECURSIVE LastDot(_, _)
LastDot(s, i) ==
    IF i = 0 THEN 0
    ELSE IF SubSeq(s, i, i) = "." THEN i ELSE LastDot(s, i - 1)

RECURSIVE FirstDot(_, _)
FirstDot(s, i) ==
    IF i > Len(s) THEN 0
    ELSE IF SubSeq(s, i, i) = "." THEN i ELSE FirstDot(s, i + 1)

\* s.split(".")[-1]
SplitLast(s) == SubSeq(s, LastDot(s, Len(s)) + 1, Len(s))

\* s.split(".")[0]
SplitFirst(s) ==
    LET d == FirstDot(s, 1) IN IF d = 0 THEN s ELSE SubSeq(s, 1, d - 1)

(***************************************************************************)
(* Nodes                                                                   *)
(***************************************************************************)
Node(tag, text, cls) == [tag |-> tag, text |-> text, classes |-> cls]

desc_annotation(text, cls) == Node("desc_annotation", text, cls)

desc_parameterlist == Node("desc_parameterlist", "(cls, v)", "")

create_field_href(field) == Node("pending_xref", field, "")

remove_node_by_tagname(nodes, tagname) ==
    SelectSeq(nodes, LAMBDA n : n.tag # tagname)

(***************************************************************************)
(* Option Resolver (PydanticAutoDirective.get_option_value): the option    *)
(* set on the directive, else the document-wide value, else None.          *)
(***************************************************************************)
NoOptions == [x \in {} |-> ""]

get_option_value(opts, name) ==
    IF name \in DOMAIN opts THEN <<opts[name]>> ELSE config[name]

\* truth value of an optional bool, as the `if` of handle_signature takes it
IsTrue(value) == value # <<>> /\ value[1]

(***************************************************************************)
(* PydanticDirectiveBase                                                   *)
(***************************************************************************)
default_prefix(k) ==
    CASE k = "model" -> "class"
      [] k = "settings" -> "class"
      [] k = "field" -> "attribute"
      [] k = "validator" -> "classmethod"
      [] k = "config" -> "class"

\* faulty variant: `default_prefix or prefix`, the override never taken
get_signature_prefix_default_first(k, opts) ==
    default_prefix(k) \o " "

get_signature_prefix(k, opts) ==
    LET config_name == k \o "-signature-prefix"
        prefix == get_option_value(opts, config_name)
        value == IF prefix = <<>> \/ prefix[1] = ""
                 THEN default_prefix(k)
                 ELSE prefix[1]
    IN  value \o " "

(***************************************************************************)
(* The host's generic handle_signature (PyClasslike, PyAttribute, PyMethod)*)
(* as the directives' super().handle_signature: it builds the node's       *)
(* children from the signature and returns (fullname, prefix).             *)
(***************************************************************************)
NamePrefix(sig) == SubSeq(sig, 1, LastDot(sig, Len(sig)))

super_handle_signature(k, opts, sig) ==
    [fullname |-> sig,
     prefix |-> NamePrefix(sig),
     sig_prefix |-> get_signature_prefix(k, opts),
     children |->
        <<desc_annotation(get_signature_prefix(k, opts), "")>>
        \o (IF NamePrefix(sig) = "" THEN <<>>
            ELSE <<Node("desc_addname", NamePrefix(sig), "")>>)
        \o <<Node("desc_name", SplitLast(sig), "")>>
        \o (IF k = "validator" THEN <<desc_parameterlist>> ELSE <<>>)]

(***************************************************************************)
(* Member Wrapper (inspection.ModelWrapper)                                *)
(***************************************************************************)
from_signode(node) ==
    LET model_name == SplitFirst(node.fullname)
    IN  [ok |-> model_name \in DOMAIN classes, name |-> model_name]

has_field(wrapper, field_name) ==
    field_name \in DOMAIN classes[wrapper.name].fields

get_field_object_by_name(wrapper, field_name) ==
    classes[wrapper.name].fields[field_name]

has_validator(wrapper, validator_name) ==
    validator_name \in DOMAIN classes[wrapper.name].validators

get_fields_for_validator(wrapper, validator_name) ==
    classes[wrapper.name].validators[validator_name]

(***************************************************************************)
(* The run of a method on a node: the children it leaves, how it ended,    *)
(* and the Member Wrapper constructions it made.                           *)
(***************************************************************************)
Returned(children, n) ==
    [children |-> children, outcome |-> "returned", error |-> "", lookups |-> n]

Raised(children, err, n) ==
    [children |-> children, outcome |-> "raised", error |-> err, lookups |-> n]

(***************************************************************************)
(* PydanticField                                                           *)
(***************************************************************************)
\* faulty variant: the annotation names the declared name, not the alias
add_alias_declared_name(node) ==
    LET field_name == SplitLast(node.fullname)
        wrapper == from_signode(node)
    IN  IF ~wrapper.ok THEN Raised(node.children, "LookupError", 1)
        ELSE IF ~has_field(wrapper, field_name)
        THEN Raised(node.children, "LookupError", 1)
        ELSE LET alias == get_field_object_by_name(wrapper, field_name).alias
             IN  IF alias # field_name
                 THEN Returned(Append(node.children,
                          desc_annotation(" (alias '" \o field_name \o "')", "")), 1)
                 ELSE Returned(node.children, 1)

\* faulty variant: the comparison of alias and name dropped
add_alias_unconditional(node) ==
    LET field_name == SplitLast(node.fullname)
        wrapper == from_signode(node)
    IN  IF ~wrapper.ok THEN Raised(node.children, "LookupError", 1)
        ELSE IF ~has_field(wrapper, field_name)
        THEN Raised(node.children, "LookupError", 1)
        ELSE LET alias == get_field_object_by_name(wrapper, field_name).alias
             IN  Returned(Append(node.children,
                     desc_annotation(" (alias '" \o alias \o "')", "")), 1)

\* faulty variant: a failed lookup caught and the alias step skipped
add_alias_swallow(node) ==
    LET field_name == SplitLast(node.fullname)
        wrapper == from_signode(node)
    IN  IF ~wrapper.ok THEN Returned(node.children, 1)
        ELSE IF ~has_field(wrapper, field_name)
        THEN Returned(node.children, 1)
        ELSE LET alias == get_field_object_by_name(wrapper, field_name).alias
             IN  IF alias # field_name
                 THEN Returned(Append(node.children,
                          desc_annotation(" (alias '" \o alias \o "')", "")), 1)
                 ELSE Returned(node.children, 1)

\* faulty variant: the annotation appended only if the node does not carry it yet
add_alias_once(node) ==
    LET field_name == SplitLast(node.fullname)
        wrapper == from_signode(node)
    IN  IF ~wrapper.ok THEN Raised(node.children, "LookupError", 1)
        ELSE IF ~has_field(wrapper, field_name)
        THEN Raised(node.children, "LookupError", 1)
        ELSE LET alias == get_field_object_by_name(wrapper, field_name).alias
                 annotation == desc_annotation(" (alias '" \o alias \o "')", "")
             IN  IF alias # field_name
                    /\ \A i \in 1..Len(node.children) : node.children[i] # annotation
                 THEN Returned(Append(node.children, annotation), 1)
                 ELSE Returned(node.children, 1)

add_alias(node) ==
    LET field_name == SplitLast(node.fullname)
        wrapper == from_signode(node)
    IN  IF ~wrapper.ok THEN Raised(node.children, "LookupError", 1)
        ELSE IF ~has_field(wrapper, field_name)
        THEN Raised(node.children, "LookupError", 1)
        ELSE LET alias == get_field_object_by_name(wrapper, field_name).alias
             IN  IF alias # field_name
                 THEN Returned(Append(node.children,
                          desc_annotation(" (alias '" \o alias \o "')", "")), 1)
                 ELSE Returned(node.children, 1)

Handled(generic, run) ==
    [base |-> generic.children,
     sig_prefix |-> generic.sig_prefix,
     children |-> run.children,
     outcome |-> run.outcome,
     error |-> run.error,
     lookups |-> run.lookups,
     result |-> IF run.outcome = "returned"
                THEN <<generic.fullname, generic.prefix>> ELSE <<>>]

\* faulty variant: add_alias called whatever field-show-alias resolves to
PydanticField_handle_signature_always(opts, sig) ==
    LET generic == super_handle_signature("field", opts, sig)
        node == [fullname |-> generic.fullname, children |-> generic.children]
    IN  Handled(generic, add_alias(node))

PydanticField_handle_signature(opts, sig) ==
    LET generic == super_handle_signature("field", opts, sig)
        node == [fullname |-> generic.fullname, children |-> generic.children]
    IN  IF IsTrue(get_option_value(opts, "field-show-alias"))
        THEN Handled(generic, add_alias(node))
        ELSE Handled(generic, Returned(node.children, 0))

(***************************************************************************)
(* PydanticValidator                                                       *)
(***************************************************************************)
ArrowClass == "autodoc_pydantic_validator_arrow"
ArrowText == "  »  "

RECURSIVE more_field_hrefs(_)
more_field_hrefs(fields) ==
    IF fields = <<>> THEN <<>>
    ELSE <<desc_annotation(", ", ""), create_field_href(Head(fields))>>
         \o more_field_hrefs(Tail(fields))

\* faulty variant: the loop runs over fields, not fields[1:]
replace_return_node_loop_all(node) ==
    LET removed == remove_node_by_tagname(node.children, "desc_parameterlist")
        arrowed == Append(removed, desc_annotation(ArrowText, ArrowClass))
        validator_name == SplitLast(node.fullname)
        wrapper == from_signode(node)
    IN  IF ~wrapper.ok THEN Raised(arrowed, "LookupError", 1)
        ELSE IF ~has_validator(wrapper, validator_name)
        THEN Raised(arrowed, "LookupError", 1)
        ELSE LET fields == get_fields_for_validator(wrapper, validator_name)
             IN  IF Len(fields) = 0 THEN Raised(arrowed, "IndexError", 1)
                 ELSE Returned(Append(arrowed, create_field_href(fields[1]))
                               \o more_field_hrefs(fields), 1)

\* faulty variant: the fields looked up before the node is touched
replace_return_node_lookup_first(node) ==
    LET removed == remove_node_by_tagname(node.children, "desc_parameterlist")
        arrowed == Append(removed, desc_annotation(ArrowText, ArrowClass))
        validator_name == SplitLast(node.fullname)
        wrapper == from_signode(node)
    IN  IF ~wrapper.ok THEN Raised(node.children, "LookupError", 1)
        ELSE IF ~has_validator(wrapper, validator_name)
        THEN Raised(node.children, "LookupError", 1)
        ELSE LET fields == get_fields_for_validator(wrapper, validator_name)
             IN  IF Len(fields) = 0 THEN Raised(node.children, "IndexError", 1)
                 ELSE Returned(Append(arrowed, create_field_href(fields[1]))
                               \o more_field_hrefs(Tail(fields)), 1)

replace_return_node(node) ==
    LET removed == remove_node_by_tagname(node.children, "desc_parameterlist")
        arrowed == Append(removed, desc_annotation(ArrowText, ArrowClass))
        validator_name == SplitLast(node.fullname)
        wrapper == from_signode(node)
    IN  IF ~wrapper.ok THEN Raised(arrowed, "LookupError", 1)
        ELSE IF ~has_validator(wrapper, validator_name)
        THEN Raised(arrowed, "LookupError", 1)
        ELSE LET fields == get_fields_for_validator(wrapper, validator_name)
             IN  IF Len(fields) = 0 THEN Raised(arrowed, "IndexError", 1)
                 ELSE Returned(Append(arrowed, create_field_href(fields[1]))
                               \o more_field_hrefs(Tail(fields)), 1)

\* faulty variant: replace_return_node called whatever the option resolves to
PydanticValidator_handle_signature_always(opts, sig) ==
    LET generic == super_handle_signature("validator", opts, sig)
        node == [fullname |-> generic.fullname, children |-> generic.children]
    IN  Handled(generic, replace_return_node(node))

PydanticValidator_handle_signature(opts, sig) ==
    LET generic == super_handle_signature("validator", opts, sig)
        node == [fullname |-> generic.fullname, children |-> generic.children]
    IN  IF IsTrue(get_option_value(opts, "validator-replace-signature"))
        THEN Handled(generic, replace_return_node(node))
        ELSE Handled(generic, Returned(node.children, 0))

\* PydanticModel, PydanticSettings, PydanticConfigClass: the host's handler alone
Classlike_handle_signature(k, opts, sig) ==
    LET generic == super_handle_signature(k, opts, sig)
    IN  Handled(generic, Returned(generic.children, 0))

(***************************************************************************)
(* Inputs: the options a directive instance may carry, the document-wide   *)
(* option values, the loaded classes.                                      *)
(***************************************************************************)
OptionSettings(name, values) == {NoOptions} \cup {name :> v : v \in values}

ToggleName(k) ==
    IF k = "field" THEN "field-show-alias" ELSE "validator-replace-signature"

LocalOptions(k) ==
    {p @@ t : p \in OptionSettings(k \o "-signature-prefix", PrefixTexts),
              t \in IF k \in {"field", "validator"}
                    THEN OptionSettings(ToggleName(k), BOOLEAN)
                    ELSE {NoOptions}}

Optional(values) == {<<>>} \cup {<<v>> : v \in values}

ConfigChoices ==
    {[name \in {k \o "-signature-prefix" : k \in Kinds} |-> p]
        @@ ("field-show-alias" :> a) @@ ("validator-replace-signature" :> r) :
        p \in Optional({"pydantic"}), a \in Optional(BOOLEAN), r \in Optional(BOOLEAN)}

\* the alias of a declared field: its own name, or a distinct external name
AliasChoices ==
    {[n \in FieldNames |-> [alias |-> IF n \in renamed THEN AliasOnly ELSE n]] :
        renamed \in SUBSET {"a", "b"}}

RECURSIVE Bindings(_)
\* the field lists a validator may be bound to: no field twice, at most n fields
Bindings(n) ==
    IF n = 0 THEN {<<>>}
    ELSE Bindings(n - 1) \cup
         {Append(b, f) : b \in {x \in Bindings(n - 1) : Len(x) = n - 1},
                         f \in FieldNames}

DistinctBindings ==
    {b \in Bindings(NumFields) : \A i, j \in 1..Len(b) : i # j => b[i] # b[j]}

ClassChoices ==
    {"M" :> [fields |-> f, validators |-> ("check" :> b)] :
        f \in AliasChoices, b \in DistinctBindings}

(***************************************************************************)
(* State machine: the host constructs a directive instance for a documented*)
(* member and calls its handle_signature once, to completion, on the       *)
(* member's signature node.  Nothing is carried over to the next member.   *)
(***************************************************************************)
Init ==
    /\ config \in ConfigChoices
    /\ classes \in ClassChoices
    /\ kind = ""
    /\ options = NoOptions
    /\ signode = [fullname |-> "", children |-> <<>>]
    /\ base = <<>>
    /\ calls = 0
    /\ outcome = "none"
    /\ error = ""
    /\ result = <<>>
    /\ sig_prefix = ""
    /\ lookups = 0

\* PydanticDirectiveBase.__init__: the instance with its options
Construct ==
    /\ kind = ""
    /\ \E k \in Kinds : \E opts \in LocalOptions(k) :
        /\ kind' = k
        /\ options' = opts
    /\ UNCHANGED <<config, classes, signode, base, calls, outcome, error,
                   result, sig_prefix, lookups>>

Invoke(sig, h) ==
    /\ calls = 0
    /\ signode' = [fullname |-> sig, children |-> h.children]
    /\ base' = h.base
    /\ calls' = 1
    /\ outcome' = h.outcome
    /\ error' = h.error
    /\ result' = h.result
    /\ sig_prefix' = h.sig_prefix
    /\ lookups' = h.lookups
    /\ UNCHANGED <<config, classes, kind, options>>

ClasslikeHandleSignature ==
    /\ kind \in ClasslikeKinds
    /\ \E sig \in ClassSigs :
        Invoke(sig, Classlike_handle_signature(kind, options, sig))

FieldHandleSignature ==
    /\ kind = "field"
    /\ \E sig \in FieldSigs :
        Invoke(sig, PydanticField_handle_signature(options, sig))

ValidatorHandleSignature ==
    /\ kind = "validator"
    /\ \E sig \in ValidatorSigs :
        Invoke(sig, PydanticValidator_handle_signature(options, sig))

\* a further, direct call of the augmentation on the node already handled
Reinvoke(run) ==
    /\ calls >= 1
    /\ calls < MaxCalls
    /\ outcome = "returned"
    /\ signode' = [signode EXCEPT !.children = run.children]
    /\ calls' = calls + 1
    /\ outcome' = run.outcome
    /\ error' = run.error
    /\ lookups' = run.lookups
    /\ UNCHANGED <<config, classes, kind, options, base, result, sig_prefix>>

AddAlias ==
    /\ kind = "field"
    /\ Reinvoke(add_alias(signode))

ReplaceReturnNode ==
    /\ kind = "validator"
    /\ Reinvoke(replace_return_node(signode))

Next ==
    \/ Construct
    \/ ClasslikeHandleSignature
    \/ FieldHandleSignature
    \/ ValidatorHandleSignature
    \/ AddAlias
    \/ ReplaceReturnNode

Spec == Init /\ [][Next]_vars

(***************************************************************************)
(* What the node's name resolves to in the loaded classes                  *)
(***************************************************************************)
ClassResolved == SplitFirst(signode.fullname) \in DOMAIN classes

DeclaredClass == classes[SplitFirst(signode.fullname)]

MemberName == SplitLast(signode.fullname)

FieldResolved == ClassResolved /\ MemberName \in DOMAIN DeclaredClass.fields

LiveAlias == DeclaredClass.fields[MemberName].alias

ValidatorResolved == ClassResolved /\ MemberName \in DOMAIN DeclaredClass.validators

BoundFields == DeclaredClass.validators[MemberName]

ShowAlias == IsTrue(get_option_value(options, "field-show-alias"))

ReplaceSignature == IsTrue(get_option_value(options, "validator-replace-signature"))

HandledField == kind = "field" /\ calls = 1

HandledValidator == kind = "validator" /\ calls = 1

Arrow == [tag |-> "desc_annotation", text |-> ArrowText, classes |-> ArrowClass]

Comma == [tag |-> "desc_annotation", text |-> ", ", classes |-> ""]

Reference(field) == [tag |-> "pending_xref", text |-> field, classes |-> ""]

HasTag(children, tag) == \E i \in 1..Len(children) : children[i].tag = tag

WithoutParameters(children) ==
    SelectSeq(children, LAMBDA n : n.tag # "desc_parameterlist")

(***************************************************************************)
(* C1: a validator with N >= 1 bound fields and replace-signature true:    *)
(* handle_signature returns with the parameter list gone from the node and,*)
(* after what the generic handler built, one separator annotation, then the*)
(* N field references in the order the Member Wrapper reports the fields,  *)
(* with exactly N-1 ", " annotations, one between consecutive references.  *)
(***************************************************************************)
C1_ParametersReplacedByFieldReferences ==
    (HandledValidator /\ ReplaceSignature /\ ValidatorResolved
        /\ Len(BoundFields) >= 1) =>
    LET ch == signode.children
        kept == WithoutParameters(base)
        k == Len(kept)
        n == Len(BoundFields)
    IN  /\ outcome = "returned"
        /\ HasTag(base, "desc_parameterlist")
        /\ ~HasTag(ch, "desc_parameterlist")
        /\ Len(ch) = k + 2 * n
        /\ SubSeq(ch, 1, k) = kept
        /\ ch[k + 1] = Arrow
        /\ \A i \in 1..n : ch[k + 2 * i] = Reference(BoundFields[i])
        /\ \A i \in 1..(n - 1) : ch[k + 2 * i + 1] = Comma
        /\ Cardinality({i \in 1..Len(ch) : ch[i] = Comma}) = n - 1
        /\ Cardinality({i \in 1..Len(ch) : ch[i].tag = "pending_xref"}) = n
        /\ Cardinality({i \in 1..Len(ch) : ch[i] = Arrow}) = 1

C1_Witness ==
    /\ HandledValidator /\ ReplaceSignature /\ ValidatorResolved
    /\ outcome = "returned"
    /\ BoundFields = <<"c", "a", "b">>
    /\ Len(signode.children) = Len(base) + 5

(***************************************************************************)
(* C2: a field whose alias differs from its declared name, show-alias true:*)
(* one call of handle_signature appends exactly one annotation node, with  *)
(* the text " (alias '<alias>')" for the alias the class reports at the    *)
(* call.                                                                   *)
(***************************************************************************)
C2_OneAliasAnnotationAppended ==
    (HandledField /\ ShowAlias /\ FieldResolved /\ LiveAlias # MemberName) =>
        /\ outcome = "returned"
        /\ Len(signode.children) = Len(base) + 1
        /\ SubSeq(signode.children, 1, Len(base)) = base
        /\ signode.children[Len(base) + 1] =
              [tag |-> "desc_annotation",
               text |-> " (alias '" \o LiveAlias \o "')",
               classes |-> ""]
        /\ LiveAlias = "id" => signode.children[Len(base) + 1].text = " (alias 'id')"

C2_Witness ==
    /\ HandledField /\ ShowAlias /\ FieldResolved
    /\ outcome = "returned"
    /\ MemberName = "b"
    /\ LiveAlias = "id"
    /\ signode.children[Len(signode.children)].text = " (alias 'id')"

(***************************************************************************)
(* The prefix option of the directive's kind, as resolved, and the label   *)
(* the kind hard-codes.                                                    *)
(***************************************************************************)
PrefixOption == get_option_value(options, kind \o "-signature-prefix")

DefaultLabel ==
    IF kind = "field" THEN "attribute"
    ELSE IF kind = "validator" THEN "classmethod"
    ELSE "class"

(***************************************************************************)
(* C3 as stated: for all five kinds get_signature_prefix returns the kind's*)
(* default label and one space when the prefix option is unset, and the    *)
(* override text and one space whenever it is set, for every override.     *)
(***************************************************************************)
C3_PrefixIsOverrideWheneverSet ==
    (kind \in Kinds /\ calls = 1) =>
        sig_prefix = IF PrefixOption = <<>>
                     THEN DefaultLabel \o " "
                     ELSE PrefixOption[1] \o " "

(***************************************************************************)
(* C3 amended: for all five kinds get_signature_prefix returns the kind's  *)
(* default label and one space when the prefix option is unset or set to   *)
(* the empty text, and the override text and one space whenever the option *)
(* is set to a non-empty text.                                             *)
(***************************************************************************)
C3_PrefixIsNonEmptyOverrideElseDefault ==
    (kind \in Kinds /\ calls = 1) =>
        /\ (PrefixOption = <<>>) => sig_prefix = DefaultLabel \o " "
        /\ (PrefixOption = <<"">>) => sig_prefix = DefaultLabel \o " "
        /\ (PrefixOption # <<>> /\ PrefixOption # <<"">>) =>
              sig_prefix = PrefixOption[1] \o " "

C3_Witness ==
    /\ kind = "settings" /\ calls = 1
    /\ "settings-signature-prefix" \in DOMAIN options
    /\ config["settings-signature-prefix"] = <<>>
    /\ sig_prefix = "pydantic "

(***************************************************************************)
(* C4: a field whose alias equals its declared name: handle_signature      *)
(* appends no alias annotation, the node stays exactly as the generic      *)
(* handler built it (and a further add_alias leaves it so).                *)
(***************************************************************************)
C4_NoAnnotationWhenAliasIsName ==
    (kind = "field" /\ calls >= 1 /\ FieldResolved /\ LiveAlias = MemberName) =>
        /\ outcome = "returned"
        /\ signode.children = base
        /\ \A i \in 1..Len(signode.children) :
              signode.children[i].text # " (alias '" \o LiveAlias \o "')"

C4_Witness ==
    /\ HandledField /\ ShowAlias /\ FieldResolved
    /\ LiveAlias = MemberName
    /\ lookups = 1
    /\ outcome = "returned"

(***************************************************************************)
(* C5: replace-signature false: handle_signature of a validator leaves the *)
(* parameter list in place and appends no separator and no field reference,*)
(* whatever the validator and however many fields it is bound to.          *)
(***************************************************************************)
C5_SignatureKeptWhenReplaceDisabled ==
    (HandledValidator /\ ~ReplaceSignature) =>
        /\ outcome = "returned"
        /\ signode.children = base
        /\ HasTag(signode.children, "desc_parameterlist")
        /\ ~HasTag(signode.children, "pending_xref")
        /\ \A i \in 1..Len(signode.children) : signode.children[i] # Arrow

C5_Witness ==
    /\ HandledValidator /\ ~ReplaceSignature
    /\ ValidatorResolved /\ BoundFields = <<>>
    /\ outcome = "returned"
    /\ HasTag(signode.children, "desc_parameterlist")

(***************************************************************************)
(* C6: a validator with zero bound fields, replace-signature true:         *)
(* handle_signature either skips the replacement (it returns, the node as  *)
(* the generic handler built it) or raises an explicit error, one raised   *)
(* for this case and not the IndexError of indexing the empty field list.  *)
(***************************************************************************)
C6_ZeroFieldsSkippedOrExplicitError ==
    (HandledValidator /\ ReplaceSignature /\ ValidatorResolved
        /\ BoundFields = <<>>) =>
        \/ outcome = "returned" /\ signode.children = base
        \/ outcome = "raised" /\ error # "IndexError"

(***************************************************************************)
(* C7: show-alias true and the owning class or the field of the node not   *)
(* resolvable: handle_signature of a field raises, the error reaches the   *)
(* host, no (fullname, prefix) pair is returned.                           *)
(***************************************************************************)
C7_UnresolvedFieldRaises ==
    (HandledField /\ ShowAlias /\ ~FieldResolved) =>
        /\ outcome = "raised"
        /\ error # ""
        /\ result = <<>>
        /\ lookups = 1

C7_Witness ==
    /\ HandledField /\ ShowAlias
    /\ ClassResolved /\ ~FieldResolved
    /\ outcome = "raised"

(***************************************************************************)
(* A step that invokes the augmentation again, directly, on a node whose   *)
(* last invocation ran it (that invocation made its Member Wrapper lookup).*)
(***************************************************************************)
SecondAugmentation ==
    /\ calls >= 1
    /\ calls' = calls + 1
    /\ lookups = 1
    /\ outcome = "returned"

(***************************************************************************)
(* C8 as stated: the augmentation of the field and of the validator        *)
(* directive is idempotent: invoked a second time on the node it already   *)
(* handled, add_alias / replace_return_node leaves the node's children as  *)
(* they were after the first invocation.                                   *)
(***************************************************************************)
C8_AugmentationIdempotent ==
    [][SecondAugmentation => signode'.children = signode.children]_vars

(***************************************************************************)
(* C8 amended: invoked a second time on the node it already handled, the   *)
(* augmentation repeats its appends. add_alias leaves the children the     *)
(* same only for a field whose alias equals its name, and otherwise appends*)
(* a second, identical alias annotation; replace_return_node appends the   *)
(* separator and the N field references with their N-1 commas a second     *)
(* time. Each invocation appends what the first one appended.              *)
(***************************************************************************)
C8_AugmentationRepeatsItsAppends ==
    [][SecondAugmentation =>
        LET old == signode.children
            new == signode'.children
            n == Len(BoundFields)
        IN  /\ outcome' = "returned"
            /\ (kind = "field" /\ LiveAlias = MemberName) => new = old
            /\ (kind = "field" /\ LiveAlias # MemberName) =>
                  /\ Len(new) = Len(old) + 1
                  /\ SubSeq(new, 1, Len(old)) = old
                  /\ new[Len(new)] = old[Len(old)]
                  /\ new[Len(new)].text = " (alias '" \o LiveAlias \o "')"
            /\ (kind = "validator") =>
                  /\ n >= 1
                  /\ Len(new) = Len(old) + 2 * n
                  /\ SubSeq(new, 1, Len(old)) = old
                  /\ SubSeq(new, Len(old) + 1, Len(new)) =
                        SubSeq(old, Len(old) - 2 * n + 1, Len(old))
                  /\ new[Len(old) + 1] = Arrow
    ]_vars

C8_Witness ==
    /\ kind = "validator" /\ calls = 2
    /\ outcome = "returned"
    /\ Len(BoundFields) = 2
    /\ Len(signode.children) = Len(base) - 1 + 8
    /\ Cardinality({i \in 1..Len(signode.children) : signode.children[i] = Arrow}) = 2

(***************************************************************************)
(* C9: replace_return_node removes the parameter list and appends the      *)
(* separator before it looks the validator's fields up: whenever that      *)
(* lookup fails or reports zero fields the call raises and the node has    *)
(* lost its parameter list and ends with the separator annotation, with no *)
(* field reference. add_alias looks up before it mutates: a failed field   *)
(* lookup leaves the node as the generic handler built it.                 *)
(***************************************************************************)
C9_ValidatorNodeMutatedBeforeLookup ==
    /\ (HandledValidator /\ ReplaceSignature
            /\ (~ValidatorResolved \/ BoundFields = <<>>)) =>
          /\ outcome = "raised"
          /\ lookups = 1
    /\ (HandledValidator /\ outcome = "raised") =>
          /\ HasTag(base, "desc_parameterlist")
          /\ ~HasTag(signode.children, "desc_parameterlist")
          /\ signode.children = Append(WithoutParameters(base), Arrow)
          /\ ~HasTag(signode.children, "pending_xref")
    /\ (HandledField /\ outcome = "raised") => signode.children = base

C9_Witness ==
    /\ HandledValidator /\ ReplaceSignature
    /\ ValidatorResolved /\ BoundFields = <<>>
    /\ outcome = "raised" /\ error = "IndexError"
    /\ signode.children[Len(signode.children)] = Arrow

(***************************************************************************)
(* C10: show-alias false: handle_signature of a field makes no Member      *)
(* Wrapper lookup and no change to the node, and returns the pair of the   *)
(* generic handler, also when the class or the field is unresolvable; and  *)
(* every call of the field or validator directive that returns, returns    *)
(* the generic handler's (fullname, prefix) pair unmodified.               *)
(***************************************************************************)
C10_GenericPairReturned ==
    /\ (HandledField /\ ~ShowAlias) =>
          /\ lookups = 0
          /\ outcome = "returned"
          /\ signode.children = base
    /\ (kind \in {"field", "validator"} /\ calls = 1 /\ outcome = "returned") =>
          /\ result = <<signode.fullname, NamePrefix(signode.fullname)>>
          /\ result[1] \in FieldSigs \cup ValidatorSigs
          /\ result[2] \in {"M.", "X."}

C10_Witness ==
    /\ HandledField /\ ~ShowAlias
    /\ ~ClassResolved
    /\ outcome = "returned"
    /\ result = <<"X.a", "X.">>

====
